---- MODULE Spec2Model ----
(***************************************************************************)
(* The recursive text chunker of app/ingest/chunker.py (class TextChunker).*)
(* A text is a sequence of one-character strings; a chunk list is a        *)
(* sequence of texts.  The pure methods are operators that compute what    *)
(* the Python computes; Spec applies them as whole calls, RunSpec executes *)
(* chunk_text step by step with an explicit call stack.                    *)
(***************************************************************************)
EXTENDS Integers, Sequences, FiniteSets, TLC

\* ---------------------------------------------------------------- bounds
MaxLen == 4         \* longest input text
MaxSize == 3        \* largest chunk_size / chunk_overlap drawn
MaxDocs == 2        \* longest document batch
MaxSegs == 3        \* longest segment list given to _apply_overlap
MaxFiles == 2       \* most files under the ingested directory
MaxRequests == 2    \* most /api/ingest requests handled
RunMaxLen == 3      \* longest input text of the stepwise run

Chars == {"x", " ", ".", "\n"}
TextsTo(k) == UNION {[1..n -> Chars] : n \in 0..k}
Texts == TextsTo(MaxLen)

\* ------------------------------------------------------- Python strings
\* str.isspace() of one character (the whitespace str.strip() removes)
IsSpace(ch) == ch \in {" ", "\n", "\t", "\r"}

RECURSIVE lstrip(_)
lstrip(s) == IF s # <<>> /\ IsSpace(Head(s)) THEN lstrip(Tail(s)) ELSE s

RECURSIVE rstrip(_)
rstrip(s) ==
    IF s # <<>> /\ IsSpace(s[Len(s)]) THEN rstrip(SubSeq(s, 1, Len(s) - 1)) ELSE s

\* str.strip()
strip(s) == rstrip(lstrip(s))

\* the 1-based positions at which pat occurs in s
Occurs(s, pat) ==
    {p \in 1..(Len(s) - Len(pat) + 1) : SubSeq(s, p, p + Len(pat) - 1) = pat}

\* 1-based position of the leftmost occurrence of pat in s, 0 when none
find(s, pat) ==
    IF Occurs(s, pat) = {} THEN 0
    ELSE CHOOSE p \in Occurs(s, pat) : \A q \in Occurs(s, pat) : p <= q

\* str.split(sep) for a nonempty sep
RECURSIVE split(_, _)
split(s, sep) ==
    LET p == find(s, sep)
    IN  IF p = 0 THEN <<s>>
        ELSE <<SubSeq(s, 1, p - 1)>> \o split(SubSeq(s, p + Len(sep), Len(s)), sep)

\* the result of a call: a returned value, or a raised ValueError
Ok(v) == [raised |-> FALSE, value |-> v]
Raised == [raised |-> TRUE, value |-> <<>>]

\* ------------------------------------------------------------ TextChunker
DefaultSeparators ==
    << <<"\n", "\n">>, <<"\n">>, <<".", " ">>, <<"?", " ">>, <<"!", " ">>,
       <<";", " ">>, <<",", " ">>, <<" ">> >>

\* the separators argument: None, or a list
None == [none |-> TRUE]
Some(l) == [none |-> FALSE, list |-> l]

\* TextChunker.__init__: stores the arguments; `separators or [...]`
\* takes the default list for None and for the empty list
TextChunker(chunk_size, chunk_overlap, separators) ==
    [chunk_size |-> chunk_size,
     chunk_overlap |-> chunk_overlap,
     separators |-> IF separators.none \/ separators.list = <<>>
                    THEN DefaultSeparators ELSE separators.list]

BreakPatterns == << <<".", " ">>, <<"?", " ">>, <<"!", " ">>, <<"\n">> >>

RECURSIVE find_clean_break_from(_, _)
find_clean_break_from(text, k) ==
    IF k > Len(BreakPatterns) THEN 0
    ELSE LET p == find(text, BreakPatterns[k])
         IN  IF p # 0 THEN p - 1 + Len(BreakPatterns[k])
             ELSE find_clean_break_from(text, k + 1)

\* a break at the leftmost match of any of the patterns
find_clean_break_leftmost(text) ==
    LET ends == {find(text, BreakPatterns[k]) - 1 + Len(BreakPatterns[k]) :
                    k \in {j \in 1..Len(BreakPatterns) : find(text, BreakPatterns[j]) # 0}}
    IN  IF ends = {} THEN 0 ELSE CHOOSE e \in ends : \A f \in ends : e <= f

\* _find_clean_break: match.end() of the first pattern that matches, else 0
find_clean_break(text) == find_clean_break_from(text, 1)

\* prev_chunk[-chunk_overlap:] if len(prev_chunk) > chunk_overlap else prev_chunk
overlap_tail(self, prev_chunk) ==
    IF Len(prev_chunk) > self.chunk_overlap
    THEN SubSeq(prev_chunk, Len(prev_chunk) - self.chunk_overlap + 1, Len(prev_chunk))
    ELSE prev_chunk

\* the overlap prefix of one chunk: the tail, cut at the clean break
overlap_text(self, prev_chunk) ==
    LET w == overlap_tail(self, prev_chunk)
        clean_break == find_clean_break(w)
    IN  IF clean_break # 0 THEN SubSeq(w, clean_break + 1, Len(w)) ELSE w

RECURSIVE apply_overlap_chained(_, _)
\* an overlap taken from the previous chunk as already overlapped
apply_overlap_chained(self, chunks) ==
    IF Len(chunks) <= 1 \/ self.chunk_overlap = 0 THEN chunks
    ELSE LET before == apply_overlap_chained(self, SubSeq(chunks, 1, Len(chunks) - 1))
         IN  Append(before, overlap_text(self, before[Len(before)]) \o <<" ">> \o
                            chunks[Len(chunks)])

\* _apply_overlap
apply_overlap(self, chunks) ==
    IF Len(chunks) <= 1 \/ self.chunk_overlap = 0 THEN chunks
    ELSE [i \in 1..Len(chunks) |->
            IF i = 1 THEN chunks[1]
            ELSE overlap_text(self, chunks[i - 1]) \o <<" ">> \o chunks[i]]

\* a stride that steps by the overlap alone
hard_stride_by_overlap(self) == self.chunk_overlap

\* the step of range(0, len(text), chunk_size - chunk_overlap)
hard_stride(self) == self.chunk_size - self.chunk_overlap

\* text[i:i + chunk_size], i 0-based
hard_window(self, text, i) ==
    SubSeq(text, i + 1, IF i + self.chunk_size < Len(text)
                        THEN i + self.chunk_size ELSE Len(text))

\* one iteration of the loop of _hard_split
hard_append(self, text, i, chunks) ==
    IF strip(hard_window(self, text, i)) # <<>>
    THEN Append(chunks, strip(hard_window(self, text, i)))
    ELSE chunks

RECURSIVE hard_loop(_, _, _, _)
hard_loop(self, text, i, chunks) ==
    IF i >= Len(text) THEN chunks
    ELSE hard_loop(self, text, i + hard_stride(self), hard_append(self, text, i, chunks))

\* _hard_split: range() raises ValueError for a zero step and is empty for
\* a negative one
hard_split(self, text) ==
    IF hard_stride(self) = 0 THEN Raised
    ELSE IF hard_stride(self) < 0 THEN Ok(<<>>)
    ELSE Ok(hard_loop(self, text, 0, <<>>))

\* a part that never gets its separator back
part_without_sep(parts, i, separator) == parts[i]

\* part + separator if i < len(parts) - 1 else part  (i 1-based here)
part_with_sep(parts, i, separator) ==
    IF i < Len(parts) THEN parts[i] \o separator ELSE parts[i]

\* a flush that appends the buffer as it is
flush_full_unstripped(chunks, current_chunk) ==
    IF current_chunk # <<>> THEN Append(chunks, current_chunk) ELSE chunks

\* if current_chunk: chunks.append(current_chunk.strip())
flush_full(chunks, current_chunk) ==
    IF current_chunk # <<>> THEN Append(chunks, strip(current_chunk)) ELSE chunks

\* if current_chunk.strip(): chunks.append(current_chunk.strip())
flush_last(chunks, current_chunk) ==
    IF strip(current_chunk) # <<>> THEN Append(chunks, strip(current_chunk)) ELSE chunks

\* a slice that starts one separator too far
separators_from_third(separators) == SubSeq(separators, 3, Len(separators))

\* remaining_separators = separators[1:]
remaining_separators(separators) == Tail(separators)

RECURSIVE recursive_split(_, _, _)
RECURSIVE split_loop(_, _, _, _, _, _)
\* the for loop of _recursive_split from part i on, the final flush and
\* the overlap
split_loop(self, separators, parts, i, chunks, current_chunk) ==
    IF i > Len(parts)
    THEN Ok(apply_overlap(self, flush_last(chunks, current_chunk)))
    ELSE LET pws == part_with_sep(parts, i, separators[1])
         IN  IF Len(current_chunk) + Len(pws) <= self.chunk_size
             THEN split_loop(self, separators, parts, i + 1, chunks, current_chunk \o pws)
             ELSE IF Len(pws) > self.chunk_size
             THEN LET sub_chunks == recursive_split(self, pws, remaining_separators(separators))
                  IN  IF sub_chunks.raised THEN Raised
                      ELSE split_loop(self, separators, parts, i + 1,
                                      flush_full(chunks, current_chunk) \o sub_chunks.value,
                                      <<>>)
             ELSE split_loop(self, separators, parts, i + 1,
                             flush_full(chunks, current_chunk), pws)

\* _recursive_split
recursive_split(self, text, separators) ==
    IF separators = <<>> THEN hard_split(self, text)
    ELSE split_loop(self, separators, split(text, separators[1]), 1, <<>>, <<>>)

\* a chunk_text that returns [text] for every short text, the empty one too
chunk_text_keeps_empty(self, text) ==
    IF Len(text) <= self.chunk_size THEN Ok(<<text>>)
    ELSE recursive_split(self, text, self.separators)

\* chunk_text
chunk_text(self, text) ==
    IF text = <<>> \/ Len(text) <= self.chunk_size
    THEN Ok(IF text # <<>> THEN <<text>> ELSE <<>>)
    ELSE recursive_split(self, text, self.separators)

\* dict.get(key, default)
get(doc, key, default) == IF key \in DOMAIN doc THEN doc[key] ELSE default

\* records whose chunk_index counts from 1
chunk_records_from_one(doc, chunks) ==
    [i \in 1..Len(chunks) |->
        [content |-> chunks[i],
         source |-> get(doc, "source", "unknown"),
         path |-> get(doc, "path", ""),
         metadata |-> [source |-> get(doc, "source", "unknown"),
                       chunk_index |-> i,
                       total_chunks |-> Len(chunks),
                       original_path |-> get(doc, "path", "")]]]

\* records whose metadata takes the source for the original path
chunk_records_path_from_source(doc, chunks) ==
    [i \in 1..Len(chunks) |->
        [content |-> chunks[i],
         source |-> get(doc, "source", "unknown"),
         path |-> get(doc, "path", ""),
         metadata |-> [source |-> get(doc, "source", "unknown"),
                       chunk_index |-> i - 1,
                       total_chunks |-> Len(chunks),
                       original_path |-> get(doc, "source", "unknown")]]]

\* the records chunk_documents appends for one document
chunk_records(doc, chunks) ==
    [i \in 1..Len(chunks) |->
        [content |-> chunks[i],
         source |-> get(doc, "source", "unknown"),
         path |-> get(doc, "path", ""),
         metadata |-> [source |-> get(doc, "source", "unknown"),
                       chunk_index |-> i - 1,
                       total_chunks |-> Len(chunks),
                       original_path |-> get(doc, "path", "")]]]

RECURSIVE chunk_documents_one_index(_, _, _, _)
\* a loop whose chunk_index runs on over the whole batch
chunk_documents_one_index(self, documents, k, chunked_docs) ==
    IF k > Len(documents) THEN Ok(chunked_docs)
    ELSE LET chunks == chunk_text(self, get(documents[k], "content", <<>>))
             records == chunk_records(documents[k], chunks.value)
         IN  IF chunks.raised THEN Raised
             ELSE chunk_documents_one_index(self, documents, k + 1,
                      chunked_docs \o
                      [i \in 1..Len(records) |->
                          [records[i] EXCEPT !.metadata.chunk_index =
                                                 Len(chunked_docs) + i - 1]])

RECURSIVE chunk_documents_from(_, _, _, _)
\* the for loop of chunk_documents from document k on
chunk_documents_from(self, documents, k, chunked_docs) ==
    IF k > Len(documents) THEN Ok(chunked_docs)
    ELSE LET chunks == chunk_text(self, get(documents[k], "content", <<>>))
         IN  IF chunks.raised THEN Raised
             ELSE chunk_documents_from(self, documents, k + 1,
                      chunked_docs \o chunk_records(documents[k], chunks.value))

\* chunk_documents
chunk_documents(self, documents) == chunk_documents_from(self, documents, 1, <<>>)

\* ------------------------------------------------------------------ state
\* the length of the run of non-whitespace characters text starts with
word_len(text) ==
    CHOOSE n \in 0..Len(text) :
        /\ \A j \in 1..n : ~IsSpace(text[j])
        /\ n = Len(text) \/ IsSpace(text[n + 1])

RECURSIVE sub_whitespace(_)
\* re.sub(r'\s+', ' ', text): every maximal run of whitespace becomes " "
sub_whitespace(text) ==
    IF text = <<>> THEN <<>>
    ELSE IF IsSpace(Head(text)) THEN <<" ">> \o sub_whitespace(lstrip(Tail(text)))
    ELSE SubSeq(text, 1, word_len(text)) \o
         sub_whitespace(SubSeq(text, word_len(text) + 1, Len(text)))

\* a normalisation that leaves out the .strip()
normalize_whitespace_unstripped(text) == sub_whitespace(text)

\* Cleaner.normalize_whitespace
normalize_whitespace(text) == strip(sub_whitespace(text))

\* Cleaner.clean_text
clean_text(text) == normalize_whitespace(text)

\* PRESETS = {"minilm": {...}, "bge-small": {...}, "nomic": {...}}
PresetTable ==
    [name \in {"minilm", "bge-small", "nomic"} |->
        CASE name = "minilm" -> [chunk_size |-> 800, chunk_overlap |-> 150]
          [] name = "bge-small" -> [chunk_size |-> 1000, chunk_overlap |-> 200]
          [] name = "nomic" -> [chunk_size |-> 2000, chunk_overlap |-> 400]]

\* a lookup that falls back to the first preset for an unknown name
from_preset_with_fallback(presets, preset_name) ==
    LET name == IF preset_name \in DOMAIN presets THEN preset_name ELSE "minilm"
    IN  Ok(TextChunker(presets[name].chunk_size, presets[name].chunk_overlap, None))

\* TextChunker.from_preset(preset_name), cls.PRESETS being presets
from_preset(presets, preset_name) ==
    IF preset_name \notin DOMAIN presets THEN Raised
    ELSE Ok(TextChunker(presets[preset_name].chunk_size,
                        presets[preset_name].chunk_overlap, None))

\* ---------------------------------------------------------------- ingest
\* str.lower() on the extensions of the files at hand
lower(ext) ==
    CASE ext = ".MD" -> ".md"
      [] ext = ".TXT" -> ".txt"
      [] OTHER -> ext

\* DocumentLoader._load_file: a file is its directory (root), its name
\* (file), the extension of the name (ext) and the text read from it, for
\* a notebook the cell sources joined by newlines
load_file(f) ==
    IF lower(f.ext) \in {".md", ".txt", ".ipynb"} THEN clean_text(f.text) ELSE <<>>

RECURSIVE load_loop(_, _)
\* the loop of load_documents over the files in the order os.walk yields
load_loop(walk, documents) ==
    IF walk = <<>> THEN documents
    ELSE LET f == Head(walk)
             content == load_file(f)
         IN  load_loop(Tail(walk),
                 IF content # <<>>
                 THEN Append(documents, [source |-> f.file, content |-> content,
                                         path |-> f.root \o "/" \o f.file])
                 ELSE documents)

\* DocumentLoader.load_documents
load_documents(walk, chunker_, chunk) ==
    LET documents == load_loop(walk, <<>>)
    IN  IF chunk /\ documents # <<>> THEN chunk_documents(chunker_, documents)
        ELSE Ok(documents)

\* f"{source}_chunk_{chunk_idx}" for documents[k]
chunk_id(documents, k) ==
    documents[k].source \o "_chunk_" \o
        ToString(get(get(documents[k], "metadata", <<>>), "chunk_index", 0))

\* doc.get('metadata', {"source": doc['source']})
ingest_metadata(doc) == get(doc, "metadata", [source |-> doc.source])

IdSet(ids) == {ids[i] : i \in 1..Len(ids)}
LastIndex(ids, id) ==
    CHOOSE i \in 1..Len(ids) :
        ids[i] = id /\ \A j \in (i + 1)..Len(ids) : ids[j] # id

\* collection.upsert of the vector store: an entry per id, a new entry
\* taking the place of the entry of its id.  A batch that repeats an id is
\* turned down by the stores that validate the ids (duplicate_ids_ =
\* "raise") and keeps the last entry of the id in the others ("last")
collection_upsert(collection_, documents, metadatas, ids, duplicate_ids_) ==
    IF Cardinality(IdSet(ids)) # Len(ids) /\ duplicate_ids_ = "raise" THEN Raised
    ELSE Ok([id \in DOMAIN collection_ \cup IdSet(ids) |->
                IF id \in IdSet(ids)
                THEN [document |-> documents[LastIndex(ids, id)],
                      metadata |-> metadatas[LastIndex(ids, id)]]
                ELSE collection_[id]])

\* an upsert that files every entry under an id of its own
upsert_documents_appending(collection_, documents, metadatas, ids, duplicate_ids_) ==
    collection_upsert(collection_, documents, metadatas,
        [i \in 1..Len(ids) |->
            ids[i] \o "#" \o ToString(Cardinality(DOMAIN collection_) + i)],
        duplicate_ids_)

\* ChromaClient.upsert_documents
upsert_documents(collection_, documents, metadatas, ids, duplicate_ids_) ==
    collection_upsert(collection_, documents, metadatas, ids, duplicate_ids_)

\* IngestRequest: the fields and their Field(ge=, le=) constraints
IngestRequest(directory, chunk, chunk_size, chunk_overlap) ==
    IF 100 <= chunk_size /\ chunk_size <= 5000
       /\ 0 <= chunk_overlap /\ chunk_overlap <= 1000
    THEN Ok([directory |-> directory, chunk |-> chunk,
             chunk_size |-> chunk_size, chunk_overlap |-> chunk_overlap])
    ELSE Raised

\* what ingest_documents leaves: its response, the collection, and its
\* locals chunker, documents and ids
Ingested(status_code, body, collection_, chunker_, documents, ids) ==
    [response |-> [status_code |-> status_code, body |-> body],
     collection |-> collection_, chunker |-> chunker_,
     documents |-> documents, ids |-> ids]

\* ingest_documents from the documents load_documents returned on
ingest_loaded(chunker_, documents, collection_, duplicate_ids_) ==
    LET texts == [k \in 1..Len(documents) |-> documents[k].content]
        metadatas == [k \in 1..Len(documents) |-> ingest_metadata(documents[k])]
        ids == [k \in 1..Len(documents) |-> chunk_id(documents, k)]
        stored == upsert_documents(collection_, texts, metadatas, ids, duplicate_ids_)
        unique_sources == Cardinality({documents[k].source : k \in 1..Len(documents)})
    IN  IF documents = <<>>
        THEN Ingested(200, [success |-> FALSE, documents_processed |-> 0,
                            chunks_created |-> 0],
                      collection_, {chunker_}, documents, <<>>)
        ELSE IF stored.raised
        THEN Ingested(500, <<>>, collection_, {chunker_}, documents, ids)
        ELSE Ingested(200, [success |-> TRUE,
                            documents_processed |-> unique_sources,
                            chunks_created |-> Len(documents)],
                      stored.value, {chunker_}, documents, ids)

\* ingest_documents(request), the directory holding the files of walk when
\* isdir
ingest_documents(request, isdir, walk, collection_, duplicate_ids_) ==
    IF ~isdir THEN Ingested(400, <<>>, collection_, {}, <<>>, <<>>)
    ELSE LET chunker_ == TextChunker(request.chunk_size, request.chunk_overlap, None)
         IN  CHOOSE done \in
                 {IF loaded.raised
                  THEN Ingested(500, <<>>, collection_, {chunker_}, <<>>, <<>>)
                  ELSE ingest_loaded(chunker_, loaded.value, collection_, duplicate_ids_) :
                      loaded \in {load_documents(walk, chunker_, request.chunk)}} : TRUE

\* ------------------------------------------------------------ /api/ai-status
\* LLMConnector.get_available_providers()
get_available_providers ==
    <<"openai", "anthropic", "huggingface_local", "huggingface_api", "databricks">>
AvailableProviders ==
    {get_available_providers[i] : i \in 1..Len(get_available_providers)}

\* the values of the enum LLMProvider
LLMProvider ==
    {"openai", "anthropic", "huggingface_local", "huggingface_api", "databricks"}

\* LLMConnector(provider): stores the provider; for "huggingface_local" it
\* loads the local model, which succeeds (loads) or raises
LLMConnector(provider, loads) ==
    IF provider = "huggingface_local" /\ ~loads
    THEN Raised
    ELSE Ok([provider |-> provider])

\* get_llm(provider): the cache after the call, the connector in it
get_llm(connectors, provider, loads) ==
    IF provider \in DOMAIN connectors
    THEN Ok(connectors)
    ELSE LET made == LLMConnector(provider, loads)
         IN  IF made.raised
             THEN Raised
             ELSE Ok([name \in DOMAIN connectors \cup {provider} |->
                         IF name = provider THEN made.value ELSE connectors[name]])

AiStatus(exception, status_code, status, connectors) ==
    [exception |-> exception,
     response |-> [status_code |-> status_code, status |-> status],
     llm_connectors |-> connectors]

\* the try block of get_ai_status: the response it returns or the
\* exception it raises; check_connection catches what the provider raises
\* and reports connection_status
ai_status_try(provider, connectors, loads, connection_status) ==
    IF provider \notin AvailableProviders
    THEN AiStatus("HTTPException", 400, "", connectors)
    ELSE LET llm == get_llm(connectors, provider, loads)
         IN  IF llm.raised
             THEN AiStatus("Exception", 0, "", connectors)
             ELSE IF provider \notin LLMProvider
                  THEN AiStatus("ValueError", 0, "", llm.value)
                  ELSE AiStatus("", 200, connection_status, llm.value)

\* get_ai_status(provider): the try block, then `except ValueError` (400)
\* and `except Exception` (500), which is the clause an HTTPException
\* raised in the try block reaches
get_ai_status(provider, connectors, loads, connection_status) ==
    LET tried == ai_status_try(provider, connectors, loads, connection_status)
    IN  IF tried.exception = "" THEN tried
        ELSE IF tried.exception = "ValueError"
             THEN AiStatus("", 400, "", tried.llm_connectors)
             ELSE AiStatus("", 500, "", tried.llm_connectors)

VARIABLES
    PRESETS,    \* the class attribute TextChunker.PRESETS
    chunker,    \* the TextChunker objects constructed so far (at most one)
    call,       \* the call in progress at the API: {} or one record
    pc,         \* the stepwise run of chunk_text: idle, running, done, raised
    run_text,   \* the text the stepwise run was called with
    stack,      \* its call stack of _recursive_split frames, innermost last
    result,     \* the list it returned
    files,      \* the files under the directory "d", in os.walk order
    duplicate_ids,  \* what the store does with a batch that repeats an id
    collection, \* the "knowledge_base" collection: id -> entry
    ingest,     \* the last /api/ingest request handled, {} or one record:
                \* its body, how many times in a row it has come, the
                \* response, and the handler's chunker, documents and ids
    handled,    \* the number of requests handled
    llm_connectors, \* the cache _llm_connectors: provider -> connector
    ai_status   \* the last /api/ai-status request handled, {} or one
                \* record: its provider, the cache before it, the response

appvars ==
    <<files, duplicate_ids, collection, ingest, handled, llm_connectors, ai_status>>
vars == <<PRESETS, chunker, call, pc, run_text, stack, result, appvars>>
runvars == <<pc, run_text, stack, result>>

SeparatorArgs ==
    {None, Some(<<>>), Some(<< <<" ">> >>), Some(<< <<".", " ">>, <<" ">> >>),
     Some(<< <<"\n">>, <<" ">> >>)}

\* the documents of a batch: dicts with "content", "source" and "path",
\* some with keys missing
DocContents ==
    {<<>>, <<"x">>, <<"x", " ", "x">>, <<"x", "x", " ", "x", ".">>}
Documents ==
    {[content |-> t, source |-> s, path |-> "docs/" \o s] :
        t \in DocContents, s \in {"a.md", "b.md"}}
    \cup {[content |-> <<"x", " ", "x">>], [source |-> "a.md"]}
Batches == UNION {[1..n -> Documents] : n \in 0..MaxDocs}

\* the three-sentence text of the documented scenario and the sizes it is
\* chunked with
ScenarioText ==
    <<"S", "e", "n", "t", "e", "n", "c", "e", " ", "o", "n", "e", ".", " ">> \o
    <<"S", "e", "n", "t", "e", "n", "c", "e", " ", "t", "w", "o", ".", " ">> \o
    <<"S", "e", "n", "t", "e", "n", "c", "e", " ", "t", "h", "r", "e", "e", ".">>
ScenarioSizes == {<<20, 0>>}
CallTexts == Texts \cup {ScenarioText}

\* the names from_preset is called with
PresetNames == {"minilm", "bge-small", "nomic", "MiniLM", ""}

\* before any call: no chunker, an empty collection, no request handled
Started ==
    /\ PRESETS = PresetTable
    /\ chunker = {}
    /\ call = {}
    /\ pc = "idle"
    /\ run_text = <<>>
    /\ stack = <<>>
    /\ result = <<>>
    /\ collection = <<>>
    /\ ingest = {}
    /\ handled = 0
    /\ llm_connectors = <<>>
    /\ ai_status = {}

Init ==
    /\ Started
    /\ files = <<>>
    /\ duplicate_ids = "raise"

\* TextChunker(chunk_size, chunk_overlap, separators)
Construct ==
    /\ chunker = {}
    /\ \E sz \in ((1..MaxSize) \X (0..MaxSize)) \cup ScenarioSizes,
          seps \in SeparatorArgs :
         chunker' = {TextChunker(sz[1], sz[2], seps)}
    /\ UNCHANGED <<appvars, PRESETS, call, runvars>>

\* chunker = TextChunker.from_preset(preset_name)
FromPreset ==
    /\ chunker = {}
    /\ call = {}
    /\ \E preset_name \in PresetNames :
         LET ret == from_preset(PRESETS, preset_name)
         IN  /\ call' = {[op |-> "from_preset", preset_name |-> preset_name,
                          ret |-> ret]}
             /\ chunker' = IF ret.raised THEN {} ELSE {ret.value}
    /\ UNCHANGED <<appvars, PRESETS, runvars>>

\* chunker.chunk_text(text)
CallChunkText ==
    /\ call = {}
    /\ \E self \in chunker, text \in CallTexts :
         call' = {[op |-> "chunk_text", text |-> text, ret |-> chunk_text(self, text)]}
    /\ UNCHANGED <<appvars, PRESETS, chunker, runvars>>

\* chunker.chunk_documents(documents)
CallChunkDocuments ==
    /\ call = {}
    /\ \E self \in chunker, documents \in Batches :
         call' = {[op |-> "chunk_documents", documents |-> documents,
                   ret |-> chunk_documents(self, documents)]}
    /\ UNCHANGED <<appvars, PRESETS, chunker, runvars>>

\* the caller takes the result
Return ==
    /\ call # {}
    /\ call' = {}
    /\ UNCHANGED <<appvars, PRESETS, chunker, runvars>>

\* the text the flow test cleans, and the texts clean_text is called with
ExampleText ==
    <<" ", " ", "T", "h", "i", "s", " ", " ", " ", "i", "s", " ">> \o
    <<" ", "a", " ", " ", " ", "t", "e", "s", "t", ".", " ", " ">>
CleanTexts == Texts \cup {ExampleText}

\* Cleaner.clean_text(text)
CallCleanText ==
    /\ call = {}
    /\ \E text \in CleanTexts :
         call' = {[op |-> "clean_text", text |-> text, ret |-> Ok(clean_text(text))]}
    /\ UNCHANGED <<appvars, PRESETS, chunker, runvars>>

Next == Construct \/ FromPreset \/ CallChunkText \/ CallChunkDocuments \/ Return

Spec == Init /\ [][Next]_vars

\* the texts of the files: words of nine letters past the smallest
\* chunk_size, a text without a separator just past it and a short text
LongText == [i \in 1..120 |-> IF i % 10 = 0 THEN " " ELSE "x"]
SolidText == [i \in 1..101 |-> "x"]
ShortText == <<" ", "x", " ", " ", "x", "\n">>
Files ==
    {[root |-> "d", file |-> "a.md", ext |-> ".md", text |-> LongText],
     [root |-> "d/s", file |-> "a.md", ext |-> ".md", text |-> ShortText],
     [root |-> "d", file |-> "b.TXT", ext |-> ".TXT", text |-> SolidText],
     [root |-> "d", file |-> "c.png", ext |-> ".png", text |-> ShortText]}
Walks ==
    {w \in UNION {[1..n -> Files] : n \in 0..MaxFiles} :
        \A i, j \in 1..Len(w) : i # j => w[i] # w[j]}

\* the request bodies: chunk_size and chunk_overlap at the ends of their
\* ranges and just outside
Requests ==
    {[directory |-> "d", chunk |-> chunk, chunk_size |-> size[1],
      chunk_overlap |-> size[2]] :
        chunk \in BOOLEAN, size \in {<<100, 0>>, <<100, 100>>, <<5000, 1000>>}}
    \cup {[directory |-> "d", chunk |-> TRUE, chunk_size |-> 99, chunk_overlap |-> 0],
          [directory |-> "d", chunk |-> TRUE, chunk_size |-> 100, chunk_overlap |-> 1001],
          [directory |-> "missing", chunk |-> TRUE, chunk_size |-> 100,
           chunk_overlap |-> 0]}

IngestInit ==
    /\ Started
    /\ files \in Walks
    /\ duplicate_ids \in {"raise", "last"}

\* POST /api/ingest: the request validated, then ingest_documents
PostIngest ==
    /\ handled < MaxRequests
    /\ handled' = handled + 1
    /\ \E body \in Requests :
         LET run == IF \E last \in ingest : last.request = body
                    THEN (CHOOSE last \in ingest : TRUE).run + 1 ELSE 1
             request == IngestRequest(body.directory, body.chunk, body.chunk_size,
                                      body.chunk_overlap)
         IN  IF request.raised
             THEN /\ ingest' = {[request |-> body, run |-> run,
                                 response |-> [status_code |-> 422, body |-> <<>>],
                                 chunker |-> {}, documents |-> <<>>, ids |-> <<>>]}
                  /\ collection' = collection
             ELSE \E done \in {ingest_documents(request.value,
                                                request.value.directory = "d", files,
                                                collection, duplicate_ids)} :
                  /\ ingest' = {[request |-> body, run |-> run,
                                 response |-> done.response,
                                 chunker |-> done.chunker,
                                 documents |-> done.documents, ids |-> done.ids]}
                  /\ collection' = done.collection
    /\ UNCHANGED <<PRESETS, chunker, call, runvars, files, duplicate_ids,
                   llm_connectors, ai_status>>

IngestNext == PostIngest

IngestSpec == IngestInit /\ [][IngestNext]_vars

\* the providers /api/ai-status is asked about
StatusProviders == AvailableProviders \cup {"unknown", "OpenAI"}

\* GET /api/ai-status?provider=...
GetAiStatus ==
    /\ \E provider \in StatusProviders, loads \in BOOLEAN,
          connection_status \in {"connected", "disconnected"} :
         \E done \in {get_ai_status(provider, llm_connectors, loads,
                                    connection_status)} :
           /\ llm_connectors' = done.llm_connectors
           /\ ai_status' = {[provider |-> provider, before |-> llm_connectors,
                             response |-> done.response]}
    /\ UNCHANGED <<PRESETS, chunker, call, runvars, files, duplicate_ids,
                   collection, ingest, handled>>

StatusNext == GetAiStatus

StatusSpec == Init /\ [][StatusNext]_vars

\* the segment lists _apply_overlap is called with
Segments ==
    TextsTo(1) \cup {<<"x", "x">>, <<".", " ", "x">>, <<"x", ".", " ", "x">>,
                     <<"x", "\n", "x">>, <<"\n", ".", " ">>}
SegmentLists == UNION {[1..n -> Segments] : n \in 0..MaxSegs}

\* a chunker, of any chunk_overlap, has been constructed
OverlapInit ==
    /\ \E chunk_overlap \in 0..MaxSize :
         chunker = {TextChunker(MaxSize, chunk_overlap, None)}
    /\ PRESETS = PresetTable
    /\ call = {}
    /\ pc = "idle"
    /\ run_text = <<>>
    /\ stack = <<>>
    /\ result = <<>>
    /\ files = <<>>
    /\ duplicate_ids = "raise"
    /\ collection = <<>>
    /\ ingest = {}
    /\ handled = 0
    /\ llm_connectors = <<>>
    /\ ai_status = {}

\* chunker._apply_overlap(chunks)
CallApplyOverlap ==
    /\ call = {}
    /\ \E self \in chunker, chunks \in SegmentLists :
         call' = {[op |-> "apply_overlap", chunks |-> chunks,
                   ret |-> Ok(apply_overlap(self, chunks))]}
    /\ UNCHANGED <<appvars, PRESETS, chunker, runvars>>

OverlapNext == CallApplyOverlap \/ Return

OverlapSpec == OverlapInit /\ [][OverlapNext]_vars

\* the texts _find_clean_break is called with
BreakChars == {"x", " ", ".", "?", "!", "\n"}
Windows == UNION {[1..n -> BreakChars] : n \in 0..MaxLen}

\* chunker._find_clean_break(text)
CallFindCleanBreak ==
    /\ call = {}
    /\ \E text \in Windows :
         call' = {[op |-> "find_clean_break", text |-> text,
                   ret |-> Ok(find_clean_break(text))]}
    /\ UNCHANGED <<appvars, PRESETS, chunker, runvars>>

BreakNext == CallFindCleanBreak \/ Return

BreakSpec == Init /\ [][BreakNext]_vars

\* the cleaner on its own: it needs no chunker
CleanNext == CallCleanText \/ Return

CleanSpec == Init /\ [][CleanNext]_vars

\* ------------------------------------------- chunk_text, step by step
\* a frame of _recursive_split (or of the _hard_split it delegates to):
\* its arguments, its locals and where it stands
Frame(at, text, separators) ==
    [at |-> at, text |-> text, separators |-> separators,
     parts |-> <<>>, i |-> 0, chunks |-> <<>>, current_chunk |-> <<>>]

Self == CHOOSE self \in chunker : TRUE
Top == stack[Len(stack)]
SetTop(f) == [stack EXCEPT ![Len(stack)] = f]

\* chunk_text: the short-text return, or the call of _recursive_split
RunCall ==
    /\ pc = "idle"
    /\ chunker # {}
    /\ \E text \in TextsTo(RunMaxLen) :
         /\ run_text' = text
         /\ IF text = <<>> \/ Len(text) <= Self.chunk_size
            THEN /\ pc' = "done"
                 /\ result' = IF text # <<>> THEN <<text>> ELSE <<>>
                 /\ stack' = <<>>
            ELSE /\ pc' = "running"
                 /\ result' = <<>>
                 /\ stack' = <<Frame("enter", text, Self.separators)>>
    /\ UNCHANGED <<appvars, PRESETS, chunker, call>>

\* an entry that takes its separator with self.separators.pop(0)
RunEnter_popping ==
    /\ pc = "running"
    /\ Top.at = "enter"
    /\ IF Top.separators = <<>>
       THEN /\ chunker' = chunker
            /\ IF hard_stride(Self) = 0
               THEN /\ pc' = "raised"
                    /\ stack' = <<>>
               ELSE /\ pc' = pc
                    /\ stack' = SetTop([Top EXCEPT !.at = "hard", !.i = 0])
       ELSE /\ pc' = pc
            /\ chunker' = {[Self EXCEPT !.separators = Tail(Top.separators)]}
            /\ stack' = SetTop([Top EXCEPT !.at = "loop", !.i = 1,
                                   !.parts = split(Top.text, Top.separators[1])])
    /\ UNCHANGED <<appvars, PRESETS, call, run_text, result>>

\* _recursive_split up to the for loop; with no separator left,
\* _hard_split up to its for loop, where range() raises for a zero step
RunEnter ==
    /\ pc = "running"
    /\ Top.at = "enter"
    /\ IF Top.separators = <<>>
       THEN IF hard_stride(Self) = 0
            THEN /\ pc' = "raised"
                 /\ stack' = <<>>
            ELSE /\ pc' = pc
                 /\ stack' = SetTop([Top EXCEPT !.at = "hard", !.i = 0])
       ELSE /\ pc' = pc
            /\ stack' = SetTop([Top EXCEPT !.at = "loop", !.i = 1,
                                   !.parts = split(Top.text, Top.separators[1])])
    /\ UNCHANGED <<appvars, PRESETS, chunker, call, run_text, result>>

\* an iteration that starts a new buffer with the part, whatever its size
RunPart_buffering_oversized ==
    /\ pc = "running"
    /\ Top.at = "loop"
    /\ Top.i <= Len(Top.parts)
    /\ LET pws == part_with_sep(Top.parts, Top.i, Top.separators[1])
       IN  IF Len(Top.current_chunk) + Len(pws) <= Self.chunk_size
           THEN stack' = SetTop([Top EXCEPT !.current_chunk = @ \o pws, !.i = @ + 1])
           ELSE stack' = SetTop([Top EXCEPT
                                    !.chunks = flush_full(@, Top.current_chunk),
                                    !.current_chunk = pws, !.i = @ + 1])
    /\ UNCHANGED <<appvars, PRESETS, chunker, call, pc, run_text, result>>

\* one iteration of the for loop of _recursive_split
RunPart ==
    /\ pc = "running"
    /\ Top.at = "loop"
    /\ Top.i <= Len(Top.parts)
    /\ LET pws == part_with_sep(Top.parts, Top.i, Top.separators[1])
       IN  IF Len(Top.current_chunk) + Len(pws) <= Self.chunk_size
           THEN stack' = SetTop([Top EXCEPT !.current_chunk = @ \o pws, !.i = @ + 1])
           ELSE IF Len(pws) > Self.chunk_size
           THEN stack' = Append(
                    SetTop([Top EXCEPT !.at = "call",
                               !.chunks = flush_full(@, Top.current_chunk)]),
                    Frame("enter", pws, remaining_separators(Top.separators)))
           ELSE stack' = SetTop([Top EXCEPT
                                    !.chunks = flush_full(@, Top.current_chunk),
                                    !.current_chunk = pws, !.i = @ + 1])
    /\ UNCHANGED <<appvars, PRESETS, chunker, call, pc, run_text, result>>

\* the flush after the for loop
RunFlush ==
    /\ pc = "running"
    /\ Top.at = "loop"
    /\ Top.i > Len(Top.parts)
    /\ stack' = SetTop([Top EXCEPT !.at = "overlap",
                            !.chunks = flush_last(@, Top.current_chunk)])
    /\ UNCHANGED <<appvars, PRESETS, chunker, call, pc, run_text, result>>

\* a frame returns ret: to chunk_text, or into the caller's
\* chunks.extend(sub_chunks); current_chunk = ""
ReturnTo(ret) ==
    IF Len(stack) = 1
    THEN /\ pc' = "done"
         /\ result' = ret
         /\ stack' = <<>>
    ELSE /\ pc' = pc
         /\ result' = result
         /\ stack' = [SubSeq(stack, 1, Len(stack) - 1) EXCEPT ![Len(stack) - 1] =
                        [@ EXCEPT !.at = "loop", !.chunks = @ \o ret,
                                  !.current_chunk = <<>>, !.i = @ + 1]]

\* return self._apply_overlap(chunks)
RunOverlap ==
    /\ pc = "running"
    /\ Top.at = "overlap"
    /\ ReturnTo(apply_overlap(Self, Top.chunks))
    /\ UNCHANGED <<appvars, PRESETS, chunker, call, run_text>>

\* one iteration of the for loop of _hard_split
RunHardStep ==
    /\ pc = "running"
    /\ Top.at = "hard"
    /\ hard_stride(Self) > 0
    /\ Top.i < Len(Top.text)
    /\ stack' = SetTop([Top EXCEPT !.chunks = hard_append(Self, Top.text, Top.i, @),
                            !.i = @ + hard_stride(Self)])
    /\ UNCHANGED <<appvars, PRESETS, chunker, call, pc, run_text, result>>

\* the end of range() in _hard_split: return chunks
RunHardReturn ==
    /\ pc = "running"
    /\ Top.at = "hard"
    /\ hard_stride(Self) < 0 \/ Top.i >= Len(Top.text)
    /\ ReturnTo(Top.chunks)
    /\ UNCHANGED <<appvars, PRESETS, chunker, call, run_text>>

RunStep ==
    RunEnter \/ RunPart \/ RunFlush \/ RunOverlap \/ RunHardStep \/ RunHardReturn

RunNext == Construct \/ RunCall \/ RunStep

\* the interpreter runs a call to its end: a step that can be taken is taken
RunSpec == Init /\ [][RunNext]_vars /\ WF_vars(RunStep)

\* the stepwise run computes what the operator chunk_text computes
RunAgrees ==
    /\ pc = "done" => chunk_text(Self, run_text) = Ok(result)
    /\ pc = "raised" => chunk_text(Self, run_text) = Raised
RunEnds == pc = "running" ~> pc \in {"done", "raised"}

\* ------------------------------------------------------------- properties
\* the configurations the data model allows: 0 <= overlap_size < target_size
Valid(self) == 0 <= self.chunk_overlap /\ self.chunk_overlap < self.chunk_size

AllWithin(chunks, n) == \A j \in 1..Len(chunks) : Len(chunks[j]) <= n

\* C1: under a valid configuration every list a _recursive_split frame
\* hands to _apply_overlap, at every recursion level, and every list of
\* windows _hard_split has built, holds only segments of length at most
\* chunk_size.
C1_RawSegmentsBounded ==
    (pc = "running" /\ Valid(Self)) =>
        \A k \in 1..Len(stack) :
            stack[k].at \in {"overlap", "hard"} =>
                AllWithin(stack[k].chunks, Self.chunk_size)

\* C2: no chunker exists whose chunk_overlap is at least its chunk_size
\* (the constructor rejects such arguments).
C2_NoInvalidChunker ==
    \A self \in chunker : self.chunk_overlap < self.chunk_size

\* C3: under a valid configuration chunk_text terminates.  Every call that
\* enters the recursive splitter returns a list; meanwhile the call stack
\* holds at most one frame per separator plus the hard split's, frame k
\* working on the separators left after k - 1 descents; and every
\* iteration of the fixed-window loop moves its index forward by the
\* positive stride chunk_size - chunk_overlap.
C3_Terminates ==
    /\ ((pc = "running" /\ Valid(Self)) ~> (pc = "done"))
    /\ [](pc = "running" =>
            /\ Len(stack) <= Len(Self.separators) + 1
            /\ \A k \in 1..Len(stack) :
                 stack[k].separators =
                    SubSeq(Self.separators, k, Len(Self.separators)))
    /\ [][(pc = "running" /\ Valid(Self) /\ RunHardStep) =>
             /\ pc' = "running"
             /\ stack'[Len(stack)].i > stack[Len(stack)].i
             /\ stack'[Len(stack)].i =
                  stack[Len(stack)].i + Self.chunk_size - Self.chunk_overlap]_vars

\* a nested fixed-window loop that has advanced at least twice
C3_Witness ==
    /\ pc = "running"
    /\ Valid(Self)
    /\ Len(stack) >= 2
    /\ Top.at = "hard"
    /\ Top.i >= 2 * hard_stride(Self)
    /\ Top.i >= Len(Top.text)

\* the calls at the API, by method
ChunkTextCalls == {c \in call : c.op = "chunk_text"}
ChunkDocumentsCalls == {c \in call : c.op = "chunk_documents"}

RECURSIVE Concat(_)
Concat(chunks) == IF chunks = <<>> THEN <<>> ELSE Head(chunks) \o Concat(Tail(chunks))

IsNotSpace(ch) == ~IsSpace(ch)
NoSpace(s) == SelectSeq(s, IsNotSpace)

AllSpace(s, from, to) == \A p \in from..to : IsSpace(s[p])

RECURSIVE Tiles(_, _, _)
\* the chunks lie in text from position `from` on, in order and disjoint,
\* with only whitespace between, before and after them
Tiles(text, chunks, from) ==
    IF chunks = <<>> THEN AllSpace(text, from, Len(text))
    ELSE \E start \in from..(Len(text) + 1 - Len(Head(chunks))) :
            /\ AllSpace(text, from, start - 1)
            /\ SubSeq(text, start, start + Len(Head(chunks)) - 1) = Head(chunks)
            /\ Tiles(text, Tail(chunks), start + Len(Head(chunks)))

\* C4: with chunk_overlap = 0 the chunks chunk_text returns are disjoint
\* contiguous substrings of the text, in text order, that leave only
\* whitespace of the text outside them; their concatenation with the
\* whitespace deleted is the text with the whitespace deleted.
C4_LosslessWithoutOverlap ==
    \A c \in ChunkTextCalls :
        Self.chunk_overlap = 0 =>
            /\ ~c.ret.raised
            /\ Tiles(c.text, c.ret.value, 1)
            /\ NoSpace(Concat(c.ret.value)) = NoSpace(c.text)

\* a text with separators at two tiers, split into several chunks
C4_Witness ==
    \E c \in ChunkTextCalls :
        /\ Self.chunk_overlap = 0
        /\ Self.chunk_size = 2
        /\ Self.separators = << <<".", " ">>, <<" ">> >>
        /\ c.text = <<"x", ".", " ", "x">>
        /\ c.ret = Ok(<< <<"x", ".">>, <<"x">> >>)

\* C5: under a valid configuration no chunk chunk_text returns is empty
\* or all whitespace.
C5_NoBlankChunk ==
    \A c \in ChunkTextCalls :
        (Valid(Self) /\ ~c.ret.raised) =>
            \A j \in 1..Len(c.ret.value) : strip(c.ret.value[j]) # <<>>

RECURSIVE raw_split(_, _, _)
RECURSIVE raw_loop(_, _, _, _, _, _)
\* the recursive splitter that adds no overlap at any level: the greedy
\* accumulation of _recursive_split, returning the segments as flushed
raw_loop(self, separators, parts, i, segments, buffer) ==
    IF i > Len(parts) THEN flush_last(segments, buffer)
    ELSE LET pws == part_with_sep(parts, i, separators[1])
         IN  IF Len(buffer) + Len(pws) <= self.chunk_size
             THEN raw_loop(self, separators, parts, i + 1, segments, buffer \o pws)
             ELSE IF Len(pws) > self.chunk_size
             THEN raw_loop(self, separators, parts, i + 1,
                           flush_full(segments, buffer)
                               \o raw_split(self, pws, remaining_separators(separators)),
                           <<>>)
             ELSE raw_loop(self, separators, parts, i + 1,
                           flush_full(segments, buffer), pws)

raw_split(self, text, separators) ==
    IF separators = <<>> THEN hard_split(self, text).value
    ELSE raw_loop(self, separators, split(text, separators[1]), 1, <<>>, <<>>)

\* splitter, then one pass of the overlap reconstructor
Pipeline(self, text) ==
    IF text = <<>> THEN <<>>
    ELSE IF Len(text) <= self.chunk_size THEN <<text>>
    ELSE apply_overlap(self, raw_split(self, text, self.separators))

\* C6: under a valid configuration the result of chunk_text is
\* apply_overlap applied once to the complete list of raw segments of a
\* splitter that adds no overlap itself, so that no chunk carries more
\* than one overlap prefix.
C6_OverlapOnce ==
    \A c \in ChunkTextCalls :
        Valid(Self) => c.ret = Ok(Pipeline(Self, c.text))

CeilDiv(a, b) == (a + b - 1) \div b

\* the last k characters of s
Suffix(s, k) == SubSeq(s, Len(s) - k + 1, Len(s))

\* C7: for a text of n characters "x", the default separators and
\* 0 < chunk_overlap < chunk_size < n, chunk_text returns exactly
\* ceil(n / (chunk_size - chunk_overlap)) chunks, each of length at most
\* chunk_size, each after the first beginning with a tail of at most
\* chunk_overlap characters of the previous raw window.
C7_HardSplitScenario ==
    \A c \in ChunkTextCalls :
        LET T == Self.chunk_size
            V == Self.chunk_overlap
            n == Len(c.text)
        IN  (/\ Self.separators = DefaultSeparators
             /\ 0 < V /\ V < T /\ T < n
             /\ \A p \in 1..n : c.text[p] = "x")
            => /\ ~c.ret.raised
               /\ Len(c.ret.value) = CeilDiv(n, T - V)
               /\ AllWithin(c.ret.value, T)
               /\ \A j \in 2..Len(c.ret.value) :
                    LET window == hard_window(Self, c.text, (j - 2) * (T - V))
                    IN  \E k \in 1..V :
                            /\ k <= Len(window)
                            /\ k <= Len(c.ret.value[j])
                            /\ SubSeq(c.ret.value[j], 1, k) = Suffix(window, k)

\* C8: with 0 < chunk_overlap < chunk_size, when the outermost
\* _recursive_split hands N >= 2 chunks to _apply_overlap, every result
\* element after the first is a nonempty overlap (the last
\* min(chunk_overlap, len) characters of the previous chunk as handed in,
\* cut at the clean break), one space, and the chunk as handed in.
C8_OverlapPrefix ==
    (/\ pc = "running"
     /\ Len(stack) = 1
     /\ Top.at = "overlap"
     /\ Valid(Self)
     /\ Self.chunk_overlap > 0
     /\ Len(Top.chunks) >= 2)
    => \A i \in 2..Len(Top.chunks) :
          LET prev == Top.chunks[i - 1]
              w == Suffix(prev, IF Len(prev) < Self.chunk_overlap
                                THEN Len(prev) ELSE Self.chunk_overlap)
              prefix == SubSeq(w, find_clean_break(w) + 1, Len(w))
          IN  /\ prefix # <<>>
              /\ apply_overlap(Self, Top.chunks)[i] = prefix \o <<" ">> \o Top.chunks[i]

\* the number of chunks of the first k documents of a batch
RECURSIVE ChunksBefore(_, _, _)
ChunksBefore(self, documents, k) ==
    IF k = 0 THEN 0
    ELSE ChunksBefore(self, documents, k - 1)
         + Len(chunk_text(self, get(documents[k], "content", <<>>)).value)

\* C9: in the list chunk_documents returns, the chunks of a document that
\* yields N chunks carry chunk_index 0, 1, ..., N-1 in output order and
\* total_chunks N.
C9_IndexAndTotal ==
    \A c \in ChunkDocumentsCalls :
        ~c.ret.raised =>
            /\ Len(c.ret.value) = ChunksBefore(Self, c.documents, Len(c.documents))
            /\ \A k \in 1..Len(c.documents) :
                 LET first == ChunksBefore(Self, c.documents, k - 1)
                     N == ChunksBefore(Self, c.documents, k) - first
                 IN  \A i \in 0..(N - 1) :
                        /\ c.ret.value[first + i + 1].metadata.chunk_index = i
                        /\ c.ret.value[first + i + 1].metadata.total_chunks = N

\* a batch of two documents of which the second yields three chunks
C9_Witness ==
    \E c \in ChunkDocumentsCalls :
        /\ ~c.ret.raised
        /\ Len(c.documents) = 2
        /\ Len(c.ret.value) = 5
        /\ c.ret.value[5].metadata.chunk_index = 2
        /\ c.ret.value[5].metadata.total_chunks = 3

\* C10: chunk_documents works document by document and in order: for
\* every way to cut the batch into A ++ B, the result is the result for A
\* followed by the result for B (and the call raises exactly when one of
\* the two does), so the chunk_index of B's first chunk is 0.
C10_BatchConcatenation ==
    \A c \in ChunkDocumentsCalls :
        \A k \in 0..Len(c.documents) :
            LET A == chunk_documents(Self, SubSeq(c.documents, 1, k))
                B == chunk_documents(Self, SubSeq(c.documents, k + 1, Len(c.documents)))
            IN  IF A.raised \/ B.raised THEN c.ret.raised
                ELSE /\ c.ret = Ok(A.value \o B.value)
                     /\ B.value # <<>> =>
                            c.ret.value[Len(A.value) + 1].metadata.chunk_index = 0

\* a batch of two documents from different sources, two chunks each
C10_Witness ==
    \E c \in ChunkDocumentsCalls :
        /\ ~c.ret.raised
        /\ Len(c.documents) = 2
        /\ Len(c.ret.value) = 4
        /\ c.ret.value[2].source # c.ret.value[3].source
        /\ c.ret.value[2].metadata.chunk_index = 1
        /\ c.ret.value[3].metadata.chunk_index = 0

\* C11: the chunks chunk_documents emits for a document d are, in order,
\* the contents chunk_text(d.content) returns, each with source d.source,
\* path d.path and metadata source d.source and original_path d.path; a
\* document with empty content contributes no chunk.
C11_ContentsAndOrigin ==
    \A c \in ChunkDocumentsCalls :
        ~c.ret.raised =>
            \A k \in 1..Len(c.documents) :
                LET d == c.documents[k]
                    chunks == chunk_text(Self, get(d, "content", <<>>)).value
                    first == ChunksBefore(Self, c.documents, k - 1)
                IN  /\ get(d, "content", <<>>) = <<>> => Len(chunks) = 0
                    /\ first + Len(chunks) <= Len(c.ret.value)
                    /\ \A i \in 1..Len(chunks) :
                         LET r == c.ret.value[first + i]
                         IN  /\ r.content = chunks[i]
                             /\ "source" \in DOMAIN d =>
                                    /\ r.source = d.source
                                    /\ r.metadata.source = d.source
                             /\ "path" \in DOMAIN d =>
                                    /\ r.path = d.path
                                    /\ r.metadata.original_path = d.path

\* an empty document followed by one of another source that yields chunks
C11_Witness ==
    \E c \in ChunkDocumentsCalls :
        /\ ~c.ret.raised
        /\ Len(c.documents) = 2
        /\ c.documents[1] = [content |-> <<>>, source |-> "a.md", path |-> "docs/a.md"]
        /\ "path" \in DOMAIN c.documents[2]
        /\ Len(c.ret.value) = 2
        /\ c.ret.value[2].metadata.original_path = "docs/b.md"

\* C12: a call of chunk_text or chunk_documents on a chunker the
\* constructor returned never raises: it returns a complete list.
C12_NoErrorAfterConstruction ==
    \A c \in call : c.op \in {"chunk_text", "chunk_documents"} => ~c.ret.raised

\* C13: the recursive splitter consumes the separator list in order.  The
\* frame at depth d (outermost 0) holds separators[d:], splits its text on
\* separators[d] and hands separators[d+1:] down; the fixed-window split
\* runs only at depth len(separators); the depth never exceeds
\* len(separators).
C13_SeparatorsInOrder ==
    pc = "running" =>
        /\ Len(stack) <= Len(Self.separators) + 1
        /\ \A k \in 1..Len(stack) :
             /\ stack[k].separators = SubSeq(Self.separators, k, Len(Self.separators))
             /\ stack[k].at \in {"loop", "call", "overlap"} =>
                    /\ k <= Len(Self.separators)
                    /\ stack[k].parts = split(stack[k].text, Self.separators[k])
             /\ stack[k].at = "hard" => k = Len(Self.separators) + 1
             /\ k < Len(stack) => stack[k].at = "call"

\* the fixed-window split at work below two separator tiers, after the
\* second tier has split its text in two
C13_Witness ==
    /\ pc = "running"
    /\ Len(Self.separators) = 2
    /\ Len(stack) = 3
    /\ Len(stack[2].parts) = 2
    /\ Top.at = "hard"
    /\ Top.chunks # <<>>

\* C14: for a nonempty text no longer than chunk_size, chunk_text returns
\* exactly one element: the text with its leading and trailing whitespace
\* removed.
C14_ShortTextTrimmed ==
    \A c \in ChunkTextCalls :
        (c.text # <<>> /\ Len(c.text) <= Self.chunk_size) =>
            c.ret = Ok(<<strip(c.text)>>)

HasContent(doc) == get(doc, "content", <<>>) # <<>>

\* C15: under a valid configuration chunk_text("") returns the empty list
\* without raising, and chunk_documents emits nothing for a document with
\* empty content: its result is that of the batch without such documents.
C15_EmptyText ==
    /\ \A c \in ChunkTextCalls :
         (Valid(Self) /\ c.text = <<>>) => c.ret = Ok(<<>>)
    /\ \A c \in ChunkDocumentsCalls :
         Valid(Self) =>
            c.ret = chunk_documents(Self, SelectSeq(c.documents, HasContent))

\* chunk_text("") has returned under a valid configuration with overlap
C15_Witness ==
    \E c \in ChunkTextCalls :
        /\ Valid(Self)
        /\ Self.chunk_overlap > 0
        /\ c.text = <<>>
        /\ c.ret = Ok(<<>>)

\* C16: chunking "Sentence one. Sentence two. Sentence three." with
\* chunk_size 20, chunk_overlap 0 and the default separators returns the
\* three sentences, broken at the ". " boundaries, each of at most 20
\* characters, in text order, and their concatenation is the text up to
\* the trimmed whitespace.
C16_ThreeSentences ==
    \A c \in ChunkTextCalls :
        (Self = TextChunker(20, 0, None) /\ c.text = ScenarioText) =>
            /\ c.ret = Ok(<<SubSeq(ScenarioText, 1, 13),
                            SubSeq(ScenarioText, 15, 27),
                            SubSeq(ScenarioText, 29, 43)>>)
            /\ AllWithin(c.ret.value, 20)
            /\ Tiles(c.text, c.ret.value, 1)
            /\ NoSpace(Concat(c.ret.value)) = NoSpace(c.text)

\* the scenario call has returned three chunks
C16_Witness ==
    \E c \in ChunkTextCalls :
        /\ Self = TextChunker(20, 0, None)
        /\ c.text = ScenarioText
        /\ ~c.ret.raised
        /\ Len(c.ret.value) = 3

FromPresetCalls == {c \in call : c.op = "from_preset"}

\* C17: from_preset maps "minilm" to chunk_size 800 and chunk_overlap 150,
\* "bge-small" to 1000 and 200, "nomic" to 2000 and 400, each with the
\* default separators, and that chunker is the one the caller holds; for
\* every other name it raises and returns none; the preset table keeps
\* its three entries.
C17_FromPreset ==
    /\ DOMAIN PRESETS = {"minilm", "bge-small", "nomic"}
    /\ PRESETS["minilm"] = [chunk_size |-> 800, chunk_overlap |-> 150]
    /\ PRESETS["bge-small"] = [chunk_size |-> 1000, chunk_overlap |-> 200]
    /\ PRESETS["nomic"] = [chunk_size |-> 2000, chunk_overlap |-> 400]
    /\ \A c \in FromPresetCalls :
         /\ c.preset_name = "minilm" => c.ret = Ok(TextChunker(800, 150, None))
         /\ c.preset_name = "bge-small" => c.ret = Ok(TextChunker(1000, 200, None))
         /\ c.preset_name = "nomic" => c.ret = Ok(TextChunker(2000, 400, None))
         /\ c.preset_name \notin {"minilm", "bge-small", "nomic"} =>
                c.ret = Raised
         /\ ~c.ret.raised => chunker = {c.ret.value}

\* a lookup with a name that differs from a preset only in case has raised
C17_Witness ==
    \E c \in FromPresetCalls : c.preset_name = "MiniLM" /\ c.ret.raised

\* C18 is not stated: chunk_text is an operator of (self, text) here, and
\* that two evaluations of it agree holds of every operator.

CleanTextCalls == {c \in call : c.op = "clean_text"}

RECURSIVE WordLen(_)
WordLen(s) == IF s = <<>> \/ IsSpace(Head(s)) THEN 0 ELSE 1 + WordLen(Tail(s))

RECURSIVE Words(_)
\* the maximal runs of non-whitespace characters of s, in order
Words(s) ==
    LET t == lstrip(s)
        n == WordLen(t)
    IN  IF t = <<>> THEN <<>>
        ELSE <<SubSeq(t, 1, n)>> \o Words(SubSeq(t, n + 1, Len(t)))

\* C20: clean_text returns the words of its input, in order, with one
\* space between neighbours: no whitespace at either end, every whitespace
\* character a space that follows a non-whitespace character, and the
\* non-whitespace characters those of the input; the flow test's text
\* becomes "This is a test."; cleaning the result again returns it.
C20_CleanText ==
    \A c \in CleanTextCalls :
        LET r == c.ret.value
        IN  /\ ~c.ret.raised
            /\ r # <<>> => ~IsSpace(r[1]) /\ ~IsSpace(r[Len(r)])
            /\ \A i \in 1..Len(r) :
                  IsSpace(r[i]) => r[i] = " " /\ i > 1 /\ ~IsSpace(r[i - 1])
            /\ Words(r) = Words(c.text)
            /\ NoSpace(r) = NoSpace(c.text)
            /\ c.text = ExampleText => r = <<"T", "h", "i", "s", " ", "i", "s", " ", "a", " ", "t", "e", "s", "t", ".">>
            /\ clean_text(r) = r

\* a text with whitespace at both ends and a run of mixed whitespace
\* between two words has been cleaned
C20_Witness ==
    \E c \in CleanTextCalls :
        /\ c.text = <<" ", "x", "\n", " ">>
        /\ c.ret = Ok(<<"x">>)

Succeeded(r) == r.response.status_code = 200 /\ r.response.body.success

\* C21: the first ingestion into the empty store leaves one entry per
\* distinct id, no more entries than documents, and handling the same
\* request on the same files again leaves the collection, and so its entry
\* count, as it was.
C21_ReingestIdempotent ==
    [][\A new \in ingest' :
          handled' = handled + 1 =>
            /\ (handled = 0 /\ Succeeded(new)) =>
                  /\ DOMAIN collection' = IdSet(new.ids)
                  /\ Cardinality(DOMAIN collection') <= Len(new.documents)
            /\ new.run > 1 => collection' = collection]_vars

\* a request that stores several chunks has succeeded a second time
C21_Witness ==
    \E r \in ingest :
        /\ r.run = 2
        /\ Succeeded(r)
        /\ Len(r.documents) >= 2
        /\ Cardinality(DOMAIN collection) = Len(r.documents)

\* C22: a chunker constructed with the empty separator list splits a text
\* longer than chunk_size into the fixed windows of _hard_split, window
\* chunk_size and stride chunk_size - chunk_overlap, and consults no
\* default separator.
C22_EmptySeparatorList ==
    \A c \in ChunkTextCalls :
        (/\ Valid(Self)
         /\ Self = TextChunker(Self.chunk_size, Self.chunk_overlap, Some(<<>>))
         /\ Len(c.text) > Self.chunk_size) =>
            c.ret = hard_split(Self, c.text)

ApplyOverlapCalls == {c \in call : c.op = "apply_overlap"}
Min(a, b) == IF a <= b THEN a ELSE b

\* C23: _apply_overlap returns a list as long as its input whose first
\* element is the first segment; with at most one segment or chunk_overlap
\* 0 it returns the input; otherwise element i >= 1 is
\* w[find_break(w):] + " " + segments[i], w the last
\* min(chunk_overlap, len(segments[i-1])) characters of the input segment
\* i-1, not of the output element i-1.
C23_ApplyOverlap ==
    \A c \in ApplyOverlapCalls :
        LET segments == c.chunks
            out == c.ret.value
            overlap == Self.chunk_overlap
        IN  /\ ~c.ret.raised
            /\ Len(out) = Len(segments)
            /\ segments # <<>> => out[1] = segments[1]
            /\ (Len(segments) <= 1 \/ overlap = 0) => out = segments
            /\ (Len(segments) > 1 /\ overlap > 0) =>
                  \A i \in 2..Len(segments) :
                     LET w == Suffix(segments[i - 1],
                                     Min(overlap, Len(segments[i - 1])))
                         b == find_clean_break(w)
                     IN  out[i] = SubSeq(w, b + 1, Len(w)) \o <<" ">> \o segments[i]

\* three segments, the middle one shorter than the overlap, the first with
\* a sentence break in its tail
C23_Witness ==
    \E c \in ApplyOverlapCalls :
        /\ Self.chunk_overlap = 3
        /\ c.chunks = << <<"x", ".", " ", "x">>, <<"x">>, <<"x", "x">> >>
        /\ c.ret = Ok(<< <<"x", ".", " ", "x">>, <<"x", " ", "x">>,
                         <<"x", " ", "x", "x">> >>)

FindCleanBreakCalls == {c \in call : c.op = "find_clean_break"}
Priority == << <<".", " ">>, <<"?", " ">>, <<"!", " ">>, <<"\n">> >>
MatchesAt(w, pat, p) ==
    p + Len(pat) - 1 <= Len(w) /\ SubSeq(w, p, p + Len(pat) - 1) = pat
Matches(w, pat) == \E p \in 1..Len(w) : MatchesAt(w, pat, p)

\* C24: _find_clean_break returns the end offset of the leftmost match of
\* the first of ". ", "? ", "! ", newline that matches anywhere in the
\* text, whatever matches of later patterns lie to its left; 0 exactly when
\* none matches; always a value in 0..len(text).
C24_FindCleanBreak ==
    \A c \in FindCleanBreakCalls :
        LET w == c.text
            r == c.ret.value
        IN  /\ ~c.ret.raised
            /\ r \in 0..Len(w)
            /\ r = 0 <=> \A k \in 1..Len(Priority) : ~Matches(w, Priority[k])
            /\ \A k \in 1..Len(Priority) :
                  (/\ Matches(w, Priority[k])
                   /\ \A j \in 1..(k - 1) : ~Matches(w, Priority[j])) =>
                     \E p \in 1..Len(w) :
                        /\ MatchesAt(w, Priority[k], p)
                        /\ \A q \in 1..(p - 1) : ~MatchesAt(w, Priority[k], q)
                        /\ r = p + Len(Priority[k]) - 1

\* a newline lies to the left of the sentence break that is taken
C24_Witness ==
    \E c \in FindCleanBreakCalls :
        /\ c.text = <<"\n", "x", ".", " ">>
        /\ c.ret = Ok(4)

\* the part the loop of the innermost frame is at, with its separator
\* back unless it is the last
NextPart ==
    IF Top.i < Len(Top.parts) THEN Top.parts[Top.i] \o Top.separators[1]
    ELSE Top.parts[Top.i]
IsPrefix(s, t) == Len(s) <= Len(t) /\ SubSeq(t, 1, Len(s)) = s

\* C25: in every frame of _recursive_split the buffer is never longer than
\* chunk_size.  An iteration of the loop appends the part to the buffer
\* when the two fit together and flushes nothing; otherwise it flushes
\* the buffer, and a part that fits on its own starts the new buffer,
\* while a part longer than chunk_size stays out of the buffer and is
\* split by a new frame with separators[1:], whose result lands in the
\* caller's chunks at that position.  No other step but the one after
\* the last part adds the buffer to the chunks.
C25_AccumulationLoop ==
    [][/\ \A k \in 1..Len(stack') :
            Len(stack'[k].current_chunk) <= Self.chunk_size
       /\ (pc = "running" /\ Top.at = "loop" /\ Top.i <= Len(Top.parts)) =>
            LET d == Len(stack)
                fits == Len(Top.current_chunk) + Len(NextPart) <= Self.chunk_size
                flushed == IF Top.current_chunk # <<>>
                           THEN Append(Top.chunks, strip(Top.current_chunk))
                           ELSE Top.chunks
            IN  /\ fits =>
                      /\ Len(stack') = d
                      /\ stack'[d].chunks = Top.chunks
                      /\ stack'[d].current_chunk = Top.current_chunk \o NextPart
                /\ (~fits /\ Len(NextPart) <= Self.chunk_size) =>
                      /\ Len(stack') = d
                      /\ stack'[d].chunks = flushed
                      /\ stack'[d].current_chunk = NextPart
                /\ Len(NextPart) > Self.chunk_size =>
                      /\ Len(stack') = d + 1
                      /\ stack'[d].chunks = flushed
                      /\ stack'[d].current_chunk = Top.current_chunk
                      /\ stack'[d + 1].text = NextPart
                      /\ stack'[d + 1].separators = Tail(Top.separators)
       /\ (pc = "running" /\ Len(stack') = Len(stack) - 1 /\ Len(stack') >= 1) =>
            LET d == Len(stack')
            IN  /\ IsPrefix(stack[d].chunks, stack'[d].chunks)
                /\ stack'[d].current_chunk = <<>>
                /\ stack'[d].i = stack[d].i + 1]_vars

\* a frame that flushed its buffer waits for the split of an oversized
\* part
C25_Witness ==
    /\ pc = "running"
    /\ Len(stack) = 2
    /\ stack[1].at = "call"
    /\ stack[1].chunks # <<>>
    /\ Len(stack[2].text) > Self.chunk_size

\* C26: under a valid configuration every chunk chunk_text returns has at
\* most chunk_size + chunk_overlap + 1 characters: a segment, an overlap
\* prefix and the joining space, however many separator tiers were used.
C26_ChunkLengthBound ==
    \A c \in ChunkTextCalls :
        (Valid(Self) /\ ~c.ret.raised) =>
            AllWithin(c.ret.value, Self.chunk_size + Self.chunk_overlap + 1)

RECURSIVE IsSubsequence(_, _)
\* s can be had from t by deleting characters
IsSubsequence(s, t) ==
    IF s = <<>> THEN TRUE
    ELSE IF t = <<>> THEN FALSE
    ELSE IF Head(s) = Head(t) THEN IsSubsequence(Tail(s), Tail(t))
    ELSE IsSubsequence(s, Tail(t))

\* C27: whatever configuration the chunker was constructed with, a
\* chunk_text call that returns drops no content: the non-whitespace
\* characters of the text occur, in order, in the chunks returned.
C27_NoContentDropped ==
    \A c \in ChunkTextCalls :
        ~c.ret.raised =>
            IsSubsequence(NoSpace(c.text), NoSpace(Concat(c.ret.value)))

\* C28: the ids "{source}_chunk_{chunk_index}" one ingestion builds are
\* pairwise distinct, for every set of files the loader walks, files in
\* different subdirectories included.
C28_IdsDistinct ==
    \A r \in ingest :
        \A i, j \in 1..Len(r.ids) : i # j => r.ids[i] # r.ids[j]

\* C29: the TextChunker that ingest_documents constructs for a request
\* that passed validation has 0 <= chunk_overlap < chunk_size.
C29_AcceptedRequestValid ==
    \A r \in ingest : \A accepted \in r.chunker : Valid(accepted)

\* C30: a GET /api/ai-status request for a provider that is not one of
\* get_available_providers() is answered with status 400, never 500, and
\* leaves the connector cache without a connector for that name.
C30_UnknownProviderRejected ==
    \A r \in ai_status :
        r.provider \notin AvailableProviders =>
            /\ r.response.status_code = 400
            /\ r.provider \notin DOMAIN llm_connectors

====
